---- MODULE Spec2Model ----
(***************************************************************************)
(* Search subsystem of the blog (package blog): tokenizer, inverted index, *)
(* query resolver with result cache, suggestion handler, and the           *)
(* client-side re-implementation that runs over the exported index.        *)
(*                                                                         *)
(* Strings are sequences of one-character strings, so that lowercasing,    *)
(* trimming, prefix/substring tests and the token regexp are computed and  *)
(* not assumed.  Go maps are functions with a finite domain; every         *)
(* `range` over a map visits its keys in an order chosen by the runtime,   *)
(* which is a nondeterministic permutation here.  A *Post is identified    *)
(* with its ID; a time.Time is a day number.                               *)
(***************************************************************************)
EXTENDS Integers, Sequences, FiniteSets, TLC

VARIABLES
    blogFS,     \* the embedded blog/ directory: file number -> parsed post
    pc,         \* position of main: "constructed" (after NewBlog) or "serving"
    posts,      \* Blog.posts: map[string]*Post
    postList,   \* Blog.postList: []*Post
    index,      \* Blog.invertedIndex.index: map[word][]postID
    cache,      \* Blog.searchCache.results: map[query][]postID
    client,     \* the BlogSearch object of static/search.js
    last,       \* observation of the last completed operation
    procs,      \* the goroutines that serve requests: position and locals
    indexMu,    \* Blog.invertedIndex.mu
    cacheMu,    \* Blog.searchCache.mu
    gen,        \* number of index maps made after the first one
    snapshot    \* the SearchIndex that the last export handed out

vars == <<blogFS, pc, posts, postList, index, cache, client, last,
          procs, indexMu, cacheMu, gen, snapshot>>

\* the state of the goroutines, their locks and the export
concVars == <<procs, indexMu, cacheMu, gen, snapshot>>

-----------------------------------------------------------------------------
(* Bounds of the model                                                     *)

\* at most this many files in blog/
NumPosts == 3
\* dates are days 1..MaxDate
MaxDate == 2

\* goroutines that serve requests at the same time
NumProcs == 2
\* requests that the server takes
MaxOps == 3
\* LoadPosts is called at most this many times on one Blog
MaxLoads == 3
\* texts handed to the tokenizer have at most this many characters
MaxTextLen == 3
\* ID lists handed to intersection have at most this many entries
MaxListLen == 3

-----------------------------------------------------------------------------
(* Characters and the string functions of package strings                  *)

LowerAlpha == <<"a","b","c","d","e","f","g","h","i","j","k","l","m",
                "n","o","p","q","r","s","t","u","v","w","x","y","z">>
UpperAlpha == <<"A","B","C","D","E","F","G","H","I","J","K","L","M",
                "N","O","P","Q","R","S","T","U","V","W","X","Y","Z">>
Digits == {"0","1","2","3","4","5","6","7","8","9"}
Whitespace == {" ", "\t", "\n", "\r", "\f"}

UpperSet == {UpperAlpha[i] : i \in 1..26}
LowerSet == {LowerAlpha[i] : i \in 1..26}

\* the character class [a-zA-Z0-9] of the token regexp
AlnumSet == UpperSet \cup LowerSet \cup Digits
IsAlnum(c) == c \in AlnumSet

\* the lowercase letter of every uppercase letter
LowerOf == [c \in UpperSet |-> LowerAlpha[CHOOSE i \in 1..26 : UpperAlpha[i] = c]]
ToLowerCh(c) == IF c \in UpperSet THEN LowerOf[c] ELSE c

\* strings.ToLower
ToLower(s) == [i \in 1..Len(s) |-> ToLowerCh(s[i])]

\* strings.TrimSpace
TrimSpace(s) ==
    IF \A i \in 1..Len(s) : s[i] \in Whitespace
    THEN <<>>
    ELSE LET first == CHOOSE i \in 1..Len(s) :
                          /\ s[i] \notin Whitespace
                          /\ \A j \in 1..(i-1) : s[j] \in Whitespace
             lst   == CHOOSE i \in 1..Len(s) :
                          /\ s[i] \notin Whitespace
                          /\ \A j \in (i+1)..Len(s) : s[j] \in Whitespace
         IN  SubSeq(s, first, lst)

\* variant: a comparison that respects letter case
EqualFoldExact(a, b) == a = b

\* strings.EqualFold on ASCII text
EqualFold(a, b) == ToLower(a) = ToLower(b)

\* strings.HasPrefix
HasPrefix(s, p) == Len(p) <= Len(s) /\ SubSeq(s, 1, Len(p)) = p

\* strings.Contains
Contains(s, sub) ==
    \E i \in 0..(Len(s) - Len(sub)) : SubSeq(s, i + 1, i + Len(sub)) = sub

\* a missing key of a map[string][]string reads as the nil slice
Lookup(m, k) == IF k \in DOMAIN m THEN m[k] ELSE <<>>

\* the sequences that visit every element of S once: the orders in which a
\* `range` over a map with key set S can run
IterOrders(S) ==
    {o \in [1..Cardinality(S) -> S] : \A i, j \in DOMAIN o : i # j => o[i] # o[j]}

Range(s) == {s[i] : i \in DOMAIN s}

-----------------------------------------------------------------------------
(* Tokenizer and inverted index                                            *)

RECURSIVE tokenizeFrom(_, _, _, _)
\* scan text from position i; cur is the run being read, acc the matches so far
tokenizeFrom(text, i, cur, acc) ==
    IF i > Len(text)
    THEN IF cur = <<>> THEN acc ELSE Append(acc, cur)
    ELSE IF IsAlnum(text[i])
         THEN tokenizeFrom(text, i + 1, Append(cur, text[i]), acc)
         ELSE tokenizeFrom(text, i + 1, <<>>,
                           IF cur = <<>> THEN acc ELSE Append(acc, cur))

\* variant: the tokenizer lowercases what it returns
tokenizeLowered(text) == tokenizeFrom(ToLower(text), 1, <<>>, <<>>)

\* regexp [a-zA-Z0-9]+, FindAllString(text, -1): leftmost-longest matches
tokenize(text) == tokenizeFrom(text, 1, <<>>, <<>>)

contains(slice, item) == \E i \in DOMAIN slice : slice[i] = item

\* variant: the word is recorded in the letter case it was written in
addWordAsWritten(idx, word, id) ==
    IF contains(Lookup(idx, word), id)
    THEN idx
    ELSE [k \in DOMAIN idx \cup {word} |->
            IF k = word THEN Append(Lookup(idx, word), id) ELSE idx[k]]

\* variant: the ID is appended without the test on contains
addWordAlways(idx, word, id) ==
    LET w == ToLower(word) IN
    [k \in DOMAIN idx \cup {w} |->
        IF k = w THEN Append(Lookup(idx, w), id) ELSE idx[k]]

\* the body of the inner loop of buildInvertedIndex for one word
addWord(idx, word, id) ==
    LET w == ToLower(word) IN
    IF contains(Lookup(idx, w), id)
    THEN idx
    ELSE [k \in DOMAIN idx \cup {w} |->
            IF k = w THEN Append(Lookup(idx, w), id) ELSE idx[k]]

RECURSIVE addWords(_, _, _, _)
addWords(idx, words, i, id) ==
    IF i > Len(words) THEN idx
    ELSE addWords(addWord(idx, words[i], id), words, i + 1, id)

\* the text of a post that is indexed
indexedText(post) == post.Title \o <<" ">> \o post.Content

RECURSIVE buildFromPosition(_, _, _, _)
\* variant: a word is recorded under the position of the post in the
\* iteration, not under its ID
buildFromPosition(idx, ps, order, i) ==
    IF i > Len(order) THEN idx
    ELSE buildFromPosition(addWords(idx, tokenize(indexedText(ps[order[i]])), 1, i),
                           ps, order, i + 1)

RECURSIVE buildFrom(_, _, _, _)
buildFrom(idx, ps, order, i) ==
    IF i > Len(order) THEN idx
    ELSE buildFrom(addWords(idx, tokenize(indexedText(ps[order[i]])), 1, order[i]),
                   ps, order, i + 1)

\* variant: the loop misses the first post it is handed
buildIndexSkipFirst(ps, order) == buildFrom(<<>>, ps, order, 2)

\* buildInvertedIndex: a fresh map filled while ranging over ps in `order`
buildIndex(ps, order) == buildFrom(<<>>, ps, order, 1)

-----------------------------------------------------------------------------
(* sort.Slice with the comparator Date.After                               *)

\* variant: Before in place of After
dateBefore(ps, a, b) == ps[a].Date < ps[b].Date

\* less(i, j) of the three sort.Slice calls: the date of a is after that of b
dateAfter(ps, a, b) == ps[a].Date > ps[b].Date

RECURSIVE insertSorted(_, _, _)
\* one pass of the insertion sort: x moves left while it is less than its
\* left neighbour
insertSorted(ps, sorted, x) ==
    IF sorted = <<>> THEN <<x>>
    ELSE IF dateAfter(ps, x, sorted[Len(sorted)])
         THEN Append(insertSorted(ps, SubSeq(sorted, 1, Len(sorted) - 1), x),
                     sorted[Len(sorted)])
         ELSE Append(sorted, x)

RECURSIVE sortFrom(_, _, _, _)
sortFrom(ps, s, i, acc) ==
    IF i > Len(s) THEN acc
    ELSE sortFrom(ps, s, i + 1, insertSorted(ps, acc, s[i]))

\* sort.Slice(s, less): for slices of at most 12 elements the library runs
\* a plain insertion sort
sortSlice(ps, s) == sortFrom(ps, s, 1, <<>>)

-----------------------------------------------------------------------------
(* The blog/ directory                                                     *)

\* Candidate files of blog/, in file-name order.  File number n stands for
\* the file whose slug, and so whose post ID, is the n-th in that order.
FilePool == <<
    [Title |-> <<"G","o">>,
     Content |-> <<"G","o",","," ","g","o","!">>,
     Tags |-> << <<"G","o">>, <<"r","u","s","t">> >>],
    [Title |-> <<"R","u","s","t">>,
     Content |-> <<"R","u","s","t","y"," ","R","U","S","T">>,
     Tags |-> << <<"w","e","b">> >>],
    [Title |-> <<"g","o","-","r","u","s","t">>,
     Content |-> <<"g","o","2"," ","x">>,
     Tags |-> << >>],
    [Title |-> <<"a","g","o">>,
     Content |-> << >>,
     Tags |-> << <<"g","o">>, <<"G","o">> >>] >>

\* the post parsePost returns for file n when its front matter gives `date`
parsedPost(n, date) ==
    [ID |-> n, Title |-> FilePool[n].Title, Date |-> date,
     Tags |-> FilePool[n].Tags, Content |-> FilePool[n].Content]

\* the directories the binary can embed: at most NumPosts of the candidate
\* files, each with a date
Corpora ==
    UNION { { [n \in S |-> parsedPost(n, d[n])] : d \in [S -> 1..MaxDate] }
            : S \in {T \in SUBSET (1..Len(FilePool)) : Cardinality(T) <= NumPosts} }

\* Candidate files that share tags: ten tags start with "go", one differs
\* from another in letter case only, tags repeat across files, and one
\* title is also a tag.
TagPool == <<
    [Title |-> <<"G","o">>,
     Content |-> <<"x">>,
     Tags |-> << <<"g","o","1">>, <<"g","o","2">>, <<"g","o","3">>,
                 <<"g","o","4">>, <<"g","o","5">>, <<"g","o","6">> >>],
    [Title |-> <<"g","o","1">>,
     Content |-> <<"y">>,
     Tags |-> << <<"g","o","5">>, <<"g","o","6">>, <<"g","o","7">>,
                 <<"g","o","8">>, <<"g","o","9">>, <<"g","o","0">> >>],
    [Title |-> <<"a","g","o">>,
     Content |-> << >>,
     Tags |-> << <<"G","o","1">>, <<"g","o","2">>, <<"g","o","1">> >>] >>

\* the post parsePost returns for file n of TagPool
taggedPost(n, date) ==
    [ID |-> n, Title |-> TagPool[n].Title, Date |-> date,
     Tags |-> TagPool[n].Tags, Content |-> TagPool[n].Content]

\* the directories made of the files of TagPool
TagCorpora ==
    UNION { { [n \in S |-> taggedPost(n, d[n])] : d \in [S -> 1..MaxDate] }
            : S \in {T \in SUBSET (1..Len(TagPool)) : Cardinality(T) <= NumPosts} }

\* raw query strings of the requests
Queries == {
    << >>,
    <<" "," ">>,
    <<"g","o">>,
    <<" ","G","O"," ">>,
    <<"R","u","s","t"," ","g","o">>,
    <<"r","u","s","t">>,
    <<"?","!">>,
    <<"g","o"," ","p","y">> }

\* raw query strings typed in the browser
ClientQueries == Queries \cup { <<"c","o","n","s","t","r","u","c","t","o","r">> }

\* raw prefixes of the suggestion requests
Prefixes == {
    << >>,
    <<" ">>,
    <<"g">>,
    <<" ","G","O">>,
    <<"o">>,
    <<"u","s">>,
    <<"r","u","s","t">> }

\* the characters of the texts: letters of both cases, a digit, a blank, a
\* symbol and a letter outside ASCII (written out by name)
TextChars == {"a", "B", "1", " ", "-", "e-acute"}

\* the texts handed to tokenize
Texts == UNION {[1..n -> TextChars] : n \in 0..MaxTextLen}

\* the ID lists handed to intersection
IDLists == UNION {[1..n -> 1..(MaxListLen + 1)] : n \in 0..MaxListLen}

-----------------------------------------------------------------------------
(* Query resolver                                                          *)

\* variant: the filter on membership in a is lost
intersectionUnfiltered(a, b) == b

intersection(a, b) == SelectSeq(b, LAMBDA item : contains(a, item))

getPostsByIDs(ps, ids) ==
    sortSlice(ps, SelectSeq(ids, LAMBDA id : id \in DOMAIN ps))

\* the inner loop of the tag scan: some tag of the post equals the query
hasTag(post, q) == \E i \in DOMAIN post.Tags : EqualFold(post.Tags[i], q)

\* the tag scan of search, ranging over the post map in `order`
tagMatches(ps, order, q) == SelectSeq(order, LAMBDA id : hasTag(ps[id], q))

RECURSIVE walkIndex(_, _, _, _, _)
\* the token loop of search; lookups counts the reads of the index map
walkIndex(idx, words, i, matching, lookups) ==
    IF i > Len(words)
    THEN [ids |-> matching, lookups |-> lookups]
    ELSE LET postIDs == Lookup(idx, ToLower(words[i]))
             m == IF i = 1 THEN postIDs ELSE intersection(matching, postIDs)
         IN  IF Len(m) = 0
             THEN [ids |-> m, lookups |-> lookups + 1]
             ELSE walkIndex(idx, words, i + 1, m, lookups + 1)

\* variant: the query is trimmed but keeps its letter case
normalizeAsTyped(query) == TrimSpace(query)

\* variant: the query is lowercased but not trimmed
normalizeUntrimmed(query) == ToLower(query)

\* the cache key of a raw query
normalize(query) == TrimSpace(ToLower(query))

LocksHit == <<"cache.RLock", "cache.RUnlock">>
LocksMiss == <<"cache.RLock", "cache.RUnlock", "index.RLock", "index.RUnlock",
               "cache.Lock", "cache.Unlock">>

\* variant: the tag matches are written to the cache like the token matches
searchCachingTags(ps, idx, ch, query, order) ==
    LET q == normalize(query) IN
    IF q = <<>>
    THEN [path |-> "empty", result |-> <<>>, cache |-> ch,
          locks |-> <<>>, lookups |-> 0]
    ELSE IF q \in DOMAIN ch
    THEN [path |-> "cache", result |-> getPostsByIDs(ps, ch[q]), cache |-> ch,
          locks |-> LocksHit, lookups |-> 0]
    ELSE LET tm == tagMatches(ps, order, TrimSpace(q)) IN
         IF Len(tm) > 0
         THEN [path |-> "tag", result |-> sortSlice(ps, tm),
               cache |-> [k \in DOMAIN ch \cup {q} |-> IF k = q THEN tm ELSE ch[k]],
               locks |-> LocksHit \o <<"cache.Lock", "cache.Unlock">>, lookups |-> 0]
         ELSE LET w == walkIndex(idx, tokenize(q), 1, <<>>, 0) IN
              [path |-> "token", result |-> getPostsByIDs(ps, w.ids),
               cache |-> [k \in DOMAIN ch \cup {q} |->
                            IF k = q THEN w.ids ELSE ch[k]],
               locks |-> LocksMiss, lookups |-> w.lookups]

\* variant: the token matches are returned but not written to the cache
searchForgetful(ps, idx, ch, query, order) ==
    LET q == normalize(query) IN
    IF q = <<>>
    THEN [path |-> "empty", result |-> <<>>, cache |-> ch,
          locks |-> <<>>, lookups |-> 0]
    ELSE IF q \in DOMAIN ch
    THEN [path |-> "cache", result |-> getPostsByIDs(ps, ch[q]), cache |-> ch,
          locks |-> LocksHit, lookups |-> 0]
    ELSE LET tm == tagMatches(ps, order, TrimSpace(q)) IN
         IF Len(tm) > 0
         THEN [path |-> "tag", result |-> sortSlice(ps, tm), cache |-> ch,
               locks |-> LocksHit, lookups |-> 0]
         ELSE LET w == walkIndex(idx, tokenize(q), 1, <<>>, 0) IN
              [path |-> "token", result |-> getPostsByIDs(ps, w.ids),
               cache |-> ch,
               locks |-> LocksMiss, lookups |-> w.lookups]

\* Blog.search over post map ps, index idx and cache ch, with the tag scan
\* ranging over ps in `order`: the returned posts, the cache afterwards, the
\* path taken, the lock operations made and the number of index reads
search(ps, idx, ch, query, order) ==
    LET q == normalize(query) IN
    IF q = <<>>
    THEN [path |-> "empty", result |-> <<>>, cache |-> ch,
          locks |-> <<>>, lookups |-> 0]
    ELSE IF q \in DOMAIN ch
    THEN [path |-> "cache", result |-> getPostsByIDs(ps, ch[q]), cache |-> ch,
          locks |-> LocksHit, lookups |-> 0]
    ELSE LET tm == tagMatches(ps, order, TrimSpace(q)) IN
         IF Len(tm) > 0
         THEN [path |-> "tag", result |-> sortSlice(ps, tm), cache |-> ch,
               locks |-> LocksHit, lookups |-> 0]
         ELSE LET w == walkIndex(idx, tokenize(q), 1, <<>>, 0) IN
              [path |-> "token", result |-> getPostsByIDs(ps, w.ids),
               cache |-> [k \in DOMAIN ch \cup {q} |->
                            IF k = q THEN w.ids ELSE ch[k]],
               locks |-> LocksMiss, lookups |-> w.lookups]

-----------------------------------------------------------------------------
(* Suggestion handler                                                      *)

\* the handler returns at most this many suggestions
SuggestLimit == 10

\* variant: tags are matched anywhere, like titles
tagSuggestedAnywhere(tag, q) == Contains(ToLower(tag), q)

\* the test on a tag in handleSuggestions
tagSuggested(tag, q) == HasPrefix(ToLower(tag), q)

\* the test on a title in handleSuggestions
titleSuggested(title, q) == Contains(ToLower(title), q)

\* append item unless suggestionsMap already holds it
addSuggestion(sugg, item) == IF contains(sugg, item) THEN sugg ELSE Append(sugg, item)

RECURSIVE suggestTags(_, _, _, _)
\* the loop over the tags of one post
suggestTags(sugg, tags, i, q) ==
    IF i > Len(tags) THEN sugg
    ELSE suggestTags(IF tagSuggested(tags[i], q) THEN addSuggestion(sugg, tags[i]) ELSE sugg,
                     tags, i + 1, q)

RECURSIVE tagPass(_, _, _, _, _)
\* the first loop of handleSuggestions, ranging over the post map in `order`
tagPass(sugg, ps, order, i, q) ==
    IF i > Len(order) THEN sugg
    ELSE tagPass(suggestTags(sugg, ps[order[i]].Tags, 1, q), ps, order, i + 1, q)

RECURSIVE titlePass(_, _, _, _, _)
\* the second loop of handleSuggestions, ranging over the post map in `order`
titlePass(sugg, ps, order, i, q) ==
    IF i > Len(order) THEN sugg
    ELSE titlePass(IF titleSuggested(ps[order[i]].Title, q)
                   THEN addSuggestion(sugg, ps[order[i]].Title) ELSE sugg,
                   ps, order, i + 1, q)

\* variant: the list is returned whole
truncateNever(sugg) == sugg

\* suggestions[:10] when there are more than 10
truncate(sugg) == IF Len(sugg) > SuggestLimit THEN SubSeq(sugg, 1, SuggestLimit) ELSE sugg

\* Blog.handleSuggestions: the JSON array written for the raw prefix, the
\* two loops ranging over the post map in order1 and order2
handleSuggestions(ps, prefix, order1, order2) ==
    LET q == normalize(prefix) IN
    IF q = << >> THEN << >>
    ELSE truncate(titlePass(tagPass(<< >>, ps, order1, 1, q), ps, order2, 1, q))

-----------------------------------------------------------------------------
(* Index export and the client-side BlogSearch                             *)

\* the two versions of the client script
Scripts == {"static/search.js", "unnamed/part_004"}

\* prefixes shorter than this get no suggestion from the client
MinClientPrefix == 2

\* Blog.NewSearchIndex: the posts of postList in order, and the index map
NewSearchIndex(ps, pl, idx) ==
    [posts |-> [i \in 1..Len(pl) |->
                   [id |-> ps[pl[i]].ID, title |-> ps[pl[i]].Title,
                    date |-> ps[pl[i]].Date, tags |-> ps[pl[i]].Tags,
                    slug |-> ps[pl[i]].ID]],
     invertedIndex |-> idx]

\* String.prototype.trim and toLowerCase on ASCII text
jsNormalize(query) == TrimSpace(ToLower(query))

RECURSIVE jsTagLoop(_, _, _, _)
\* for (const tag of tags) if (tag.toLowerCase().startsWith(query)) add
jsTagLoop(sugg, tags, i, q) ==
    IF i > Len(tags) THEN sugg
    ELSE jsTagLoop(IF HasPrefix(ToLower(tags[i]), q) THEN addSuggestion(sugg, tags[i]) ELSE sugg,
                   tags, i + 1, q)

\* if (post.title.toLowerCase().includes(query)) add
jsTitleStep(sugg, post, q) ==
    IF Contains(ToLower(post.title), q) THEN addSuggestion(sugg, post.title) ELSE sugg

RECURSIVE jsTagPass(_, _, _, _)
jsTagPass(sugg, cposts, i, q) ==
    IF i > Len(cposts) THEN sugg
    ELSE jsTagPass(jsTagLoop(sugg, cposts[i].tags, 1, q), cposts, i + 1, q)

RECURSIVE jsTitlePass(_, _, _, _)
jsTitlePass(sugg, cposts, i, q) ==
    IF i > Len(cposts) THEN sugg
    ELSE jsTitlePass(jsTitleStep(sugg, cposts[i], q), cposts, i + 1, q)

RECURSIVE jsPostPass(_, _, _, _)
\* the single loop of the part_004 script: the tags of a post, then its title
jsPostPass(sugg, cposts, i, q) ==
    IF i > Len(cposts) THEN sugg
    ELSE jsPostPass(jsTitleStep(jsTagLoop(sugg, cposts[i].tags, 1, q), cposts[i], q),
                    cposts, i + 1, q)

\* Array.from(suggestions).slice(0, 10)
jsSlice(sugg) == SubSeq(sugg, 1, IF Len(sugg) < SuggestLimit THEN Len(sugg) ELSE SuggestLimit)

\* BlogSearch.getSuggestions of static/search.js.  A post exported without
\* tags carries tags: null, and iterating it throws a TypeError.
getSuggestions(c, query) ==
    IF ~c.initialized \/ query = << >> THEN [path |-> "return", result |-> << >>]
    ELSE LET q == jsNormalize(query) IN
         IF Len(q) < MinClientPrefix THEN [path |-> "return", result |-> << >>]
         ELSE IF \E i \in DOMAIN c.posts : c.posts[i].tags = << >>
              THEN [path |-> "throw", result |-> << >>]
              ELSE [path |-> "return",
                    result |-> jsSlice(jsTitlePass(jsTagPass(<< >>, c.posts, 1, q),
                                                   c.posts, 1, q))]

\* BlogSearch.getSuggestions of the part_004 script (tags || [])
getSuggestionsOneLoop(c, query) ==
    IF ~c.initialized \/ query = << >> THEN [path |-> "return", result |-> << >>]
    ELSE LET q == jsNormalize(query) IN
         IF Len(q) < MinClientPrefix THEN [path |-> "return", result |-> << >>]
         ELSE [path |-> "return", result |-> jsSlice(jsPostPass(<< >>, c.posts, 1, q))]

\* String.prototype.match(/[a-zA-Z0-9]+/g) and toLowerCase on every match
jsTokenize(text) == [i \in DOMAIN tokenize(text) |-> ToLower(tokenize(text)[i])]

\* the only lowercase alphanumeric word that names a property which every
\* object inherits from Object.prototype
InheritedWord == <<"c","o","n","s","t","r","u","c","t","o","r">>

\* this.invertedIndex[word] || []: the own entry of the parsed JSON object,
\* the inherited property (a function) when the word names one and no own
\* entry hides it, and [] otherwise
jsEntry(inv, word) ==
    IF word \in DOMAIN inv THEN [kind |-> "array", ids |-> inv[word]]
    ELSE IF word = InheritedWord THEN [kind |-> "function", ids |-> << >>]
    ELSE [kind |-> "array", ids |-> << >>]

RECURSIVE jsWalk(_, _, _, _)
\* the loop over the words: matchingPostIds is a Set, null before the first
\* word; new Set(f), f.includes and for-of over f throw for a function f
jsWalk(inv, words, i, matching) ==
    IF i > Len(words) THEN [path |-> "return", ids |-> matching]
    ELSE LET e == jsEntry(inv, words[i])
             m == IF i = 1 THEN Range(e.ids) ELSE matching \cap Range(e.ids)
         IN  IF e.kind = "function" THEN [path |-> "throw", ids |-> {}]
             ELSE IF m = {} THEN [path |-> "return", ids |-> m]
             ELSE jsWalk(inv, words, i + 1, m)

RECURSIVE jsInsertByDate(_, _)
\* a stable sort with the comparator new Date(b.date) - new Date(a.date)
jsInsertByDate(sorted, x) ==
    IF sorted = << >> THEN <<x>>
    ELSE IF x.date > sorted[Len(sorted)].date
         THEN Append(jsInsertByDate(SubSeq(sorted, 1, Len(sorted) - 1), x),
                     sorted[Len(sorted)])
         ELSE Append(sorted, x)

RECURSIVE jsSortFrom(_, _, _)
jsSortFrom(s, i, acc) ==
    IF i > Len(s) THEN acc ELSE jsSortFrom(s, i + 1, jsInsertByDate(acc, s[i]))

\* sortByDate
jsSortByDate(cposts) == jsSortFrom(cposts, 1, << >>)

\* the IDs of a list of exported posts
jsIDs(cposts) == [i \in DOMAIN cposts |-> cposts[i].id]

\* BlogSearch.search.  In static/search.js (`guarded` FALSE) the filter
\* calls post.tags.some on every post, which throws a TypeError on a post
\* exported with tags: null; the part_004 script reads (post.tags || []).
jsSearch(c, query, guarded) ==
    IF ~c.initialized \/ query = << >> THEN [path |-> "return", result |-> << >>]
    ELSE LET q == jsNormalize(query) IN
         IF q = << >> THEN [path |-> "return", result |-> << >>]
         ELSE IF ~guarded /\ \E i \in DOMAIN c.posts : c.posts[i].tags = << >>
         THEN [path |-> "throw", result |-> << >>]
         ELSE LET tagged == SelectSeq(c.posts, LAMBDA post :
                                \E i \in DOMAIN post.tags : ToLower(post.tags[i]) = q)
              IN  IF Len(tagged) > 0
                  THEN [path |-> "return", result |-> jsIDs(jsSortByDate(tagged))]
                  ELSE IF jsTokenize(q) = << >>
                  THEN [path |-> "return", result |-> << >>]
                  ELSE LET w == jsWalk(c.invertedIndex, jsTokenize(q), 1, {}) IN
                       IF w.path = "throw" THEN [path |-> "throw", result |-> << >>]
                       ELSE [path |-> "return",
                             result |-> jsIDs(jsSortByDate(
                                 SelectSeq(c.posts, LAMBDA post : post.id \in w.ids)))]

-----------------------------------------------------------------------------
(* Goroutines and sync.RWMutex                                             *)

Procs == 1..NumProcs

\* a goroutine between two requests, after it served n of them
IdleProc(n) ==
    [pc |-> "idle", op |-> "", query |-> << >>, q |-> << >>, words |-> << >>,
     i |-> 0, ids |-> << >>, result |-> << >>, path |-> "", todo |-> {},
     blocked |-> "", locks |-> << >>, lookups |-> 0, n |-> n]

\* the zero RWMutex.  w is the goroutine that owns the writer side (0 for
\* none) and wq the goroutines queued for it; readers hold the read side;
\* waitq are the readers that arrived while a writer owned the writer side.
FreeMutex == [w |-> 0, wq |-> {}, readers |-> {}, waitq |-> {}]

\* RLock: granted at once unless a writer holds or awaits the lock
callRLock(mu, p) ==
    IF mu.w = 0
    THEN [mu |-> [mu EXCEPT !.readers = @ \cup {p}], blocked |-> FALSE]
    ELSE [mu |-> [mu EXCEPT !.waitq = @ \cup {p}], blocked |-> TRUE]

\* RUnlock
callRUnlock(mu, p) == [mu EXCEPT !.readers = @ \ {p}]

\* Lock: the writer side is taken when free, and the call returns once the
\* readers that hold the lock have left
callLock(mu, p) ==
    IF mu.w = 0
    THEN [mu |-> [mu EXCEPT !.w = p], blocked |-> mu.readers # {}]
    ELSE [mu |-> [mu EXCEPT !.wq = @ \cup {p}], blocked |-> TRUE]

\* Unlock: the readers that waited are let in, then the writer side is free
callUnlock(mu, p) ==
    IF mu.w = p
    THEN [mu EXCEPT !.w = 0, !.readers = @ \cup mu.waitq, !.waitq = {}]
    ELSE mu

\* a goroutine blocked in RLock ("R") or Lock ("W") can go on
canWake(mu, p, side) ==
    IF side = "R" THEN p \in mu.readers
    ELSE (mu.w = p /\ mu.readers = {}) \/ (mu.w = 0 /\ p \in mu.wq)

\* what going on does to the mutex, and whether the call still blocks
wake(mu, p, side) ==
    IF side = "R" \/ mu.w = p
    THEN [mu |-> mu, blocked |-> FALSE]
    ELSE [mu |-> [mu EXCEPT !.w = p, !.wq = @ \ {p}], blocked |-> mu.readers # {}]

\* variant: buildInvertedIndex without its Lock
buildLockMissing(mu, p) == [mu |-> mu, blocked |-> FALSE]

\* b.invertedIndex.mu.Lock() of buildInvertedIndex
buildLock(mu, p) == callLock(mu, p)

\* variant: the token loop without its RLock
walkRLockMissing(mu, p) == [mu |-> mu, blocked |-> FALSE]

\* b.invertedIndex.mu.RLock() before the token loop of search
walkRLock(mu, p) == callRLock(mu, p)

\* variant: the return on a cache hit leaves the read lock held
hitRUnlockMissing(mu, p) == mu

\* b.searchCache.mu.RUnlock() on a cache hit
hitRUnlock(mu, p) == callRUnlock(mu, p)

\* variant: a rebuild empties the lists and fills them again in place
allocateNothing(g) == g

\* make(map[string][]string) and the appends to its nil entries: the lists
\* of a rebuild live in storage of their own
allocate(g) == g + 1

\* variant: the write makes a map that holds the new entry alone
storeResultAlone(ch, q, ids) == [k \in {q} |-> ids]

\* b.searchCache.results[query] = matchingPostIDs
storeResult(ch, q, ids) == [k \in DOMAIN ch \cup {q} |-> IF k = q THEN ids ELSE ch[k]]

\* no export has run
NoSnapshot == [taken |-> FALSE, gen |-> 0, posts |-> << >>, invertedIndex |-> << >>]

\* request strings of the concurrent requests
ConcQueries == { << >>, <<" ","G","O"," ">>, <<"R","u","s","t"," ","g","o">> }
ConcPrefixes == { <<"g">> }

-----------------------------------------------------------------------------
(* State machine                                                           *)

\* the entries of ReadDir: the file numbers in ascending order
dirEntries(fs) ==
    CHOOSE s \in IterOrders(DOMAIN fs) :
        \A i, j \in DOMAIN s : i < j => s[i] < s[j]

Observation(op, query, path, result, locks, lookups) ==
    [op |-> op, query |-> query, path |-> path, result |-> result,
     locks |-> locks, lookups |-> lookups]

\* NewBlog: empty maps, nothing loaded
Init ==
    /\ blogFS \in Corpora
    /\ pc = "constructed"
    /\ posts = << >>
    /\ postList = << >>
    /\ index = << >>
    /\ cache = << >>
    /\ client = [script |-> "none", initialized |-> FALSE,
                 posts |-> << >>, invertedIndex |-> << >>]
    /\ last = Observation("NewBlog", << >>, "", << >>, << >>, 0)
    /\ procs = [p \in Procs |-> IdleProc(0)]
    /\ indexMu = FreeMutex
    /\ cacheMu = FreeMutex
    /\ gen = 0
    /\ snapshot = NoSnapshot

\* NewBlog over a directory of files that share tags
InitTags ==
    /\ blogFS \in TagCorpora
    /\ pc = "constructed"
    /\ posts = << >>
    /\ postList = << >>
    /\ index = << >>
    /\ cache = << >>
    /\ client = [script |-> "none", initialized |-> FALSE,
                 posts |-> << >>, invertedIndex |-> << >>]
    /\ last = Observation("NewBlog", << >>, "", << >>, << >>, 0)
    /\ procs = [p \in Procs |-> IdleProc(0)]
    /\ indexMu = FreeMutex
    /\ cacheMu = FreeMutex
    /\ gen = 0
    /\ snapshot = NoSnapshot

\* LoadPosts, called by main before the server starts
LoadPosts ==
    /\ pc = "constructed"
    /\ LET newPosts == [id \in DOMAIN posts \cup DOMAIN blogFS |->
                            IF id \in DOMAIN blogFS THEN blogFS[id] ELSE posts[id]]
       IN  /\ posts' = newPosts
           /\ postList' = sortSlice(newPosts, postList \o dirEntries(blogFS))
           /\ \E order \in IterOrders(DOMAIN newPosts) :
                  index' = buildIndex(newPosts, order)
    /\ pc' = "serving"
    /\ last' = Observation("LoadPosts", << >>, "", << >>,
                           <<"index.Lock", "index.Unlock">>, 0)
    /\ UNCHANGED <<blogFS, cache, client>>
    /\ UNCHANGED concVars

\* LoadPosts called again on the same Blog; the embedded directory has not
\* changed
Reload ==
    /\ pc = "serving"
    /\ Len(postList) < MaxLoads * Cardinality(DOMAIN blogFS)
    /\ LET newPosts == [id \in DOMAIN posts \cup DOMAIN blogFS |->
                            IF id \in DOMAIN blogFS THEN blogFS[id] ELSE posts[id]]
       IN  /\ posts' = newPosts
           /\ postList' = sortSlice(newPosts, postList \o dirEntries(blogFS))
           /\ \E order \in IterOrders(DOMAIN newPosts) :
                  index' = buildIndex(newPosts, order)
    /\ last' = Observation("LoadPosts", << >>, "again", << >>,
                           <<"index.Lock", "index.Unlock">>, 0)
    /\ UNCHANGED <<blogFS, pc, cache, client>>
    /\ UNCHANGED concVars

\* buildInvertedIndex called again over the loaded collection
BuildInvertedIndex ==
    /\ pc = "serving"
    /\ \E order \in IterOrders(DOMAIN posts) :
           index' = buildIndex(posts, order)
    /\ last' = Observation("build", << >>, "", << >>,
                           <<"index.Lock", "index.Unlock">>, 0)
    /\ UNCHANGED <<blogFS, pc, posts, postList, cache, client>>
    /\ UNCHANGED concVars

\* The orders in which the tag scan of search can reach the posts that carry
\* the tag.  A post the loop body skips is left out: where it falls in the
\* iteration changes nothing.  No order is drawn when search returns before
\* the scan.
scanOrders(ps, ch, query) ==
    IF normalize(query) = << >> \/ normalize(query) \in DOMAIN ch
    THEN {<< >>}
    ELSE IterOrders({id \in DOMAIN ps : hasTag(ps[id], TrimSpace(normalize(query)))})

\* handleSearch: one call of Blog.search
Search(query) ==
    /\ pc = "serving"
    /\ \E order \in scanOrders(posts, cache, query) :
           LET r == search(posts, index, cache, query, order) IN
           /\ cache' = r.cache
           /\ last' = Observation("search", query, r.path, r.result,
                                  r.locks, r.lookups)
    /\ UNCHANGED <<blogFS, pc, posts, postList, index, client>>
    /\ UNCHANGED concVars

\* The orders in which the two loops of handleSuggestions can reach the
\* posts that add a suggestion, the posts they skip left out as above.  No
\* order is drawn when the handler returns before the loops.
tagOrders(ps, prefix) ==
    IF normalize(prefix) = << >> THEN {<< >>}
    ELSE IterOrders({id \in DOMAIN ps :
             \E i \in DOMAIN ps[id].Tags : tagSuggested(ps[id].Tags[i], normalize(prefix))})

titleOrders(ps, prefix) ==
    IF normalize(prefix) = << >> THEN {<< >>}
    ELSE IterOrders({id \in DOMAIN ps : titleSuggested(ps[id].Title, normalize(prefix))})

\* handleSuggestions: one request to /api/suggestions
Suggestions(prefix) ==
    /\ pc = "serving"
    /\ \E order1 \in tagOrders(posts, prefix), order2 \in titleOrders(posts, prefix) :
           last' = Observation("suggest", prefix, "return",
                               handleSuggestions(posts, prefix, order1, order2),
                               << >>, 0)
    /\ UNCHANGED <<blogFS, pc, posts, postList, index, cache, client>>
    /\ UNCHANGED concVars

\* BlogSearch.init of a page that runs `script`: /search-index.json is
\* fetched and kept
ClientInit(script) ==
    /\ pc = "serving"
    /\ ~client.initialized
    /\ LET data == NewSearchIndex(posts, postList, index) IN
       client' = [script |-> script, initialized |-> TRUE,
                  posts |-> data.posts, invertedIndex |-> data.invertedIndex]
    /\ last' = Observation("init", << >>, "return", << >>,
                           <<"index.RLock", "index.RUnlock">>, 0)
    /\ UNCHANGED <<blogFS, pc, posts, postList, index, cache>>
    /\ UNCHANGED concVars

\* BlogSearch.init when the fetch fails: the client falls back to no data
ClientInitFailed(script) ==
    /\ ~client.initialized
    /\ client' = [script |-> script, initialized |-> TRUE,
                  posts |-> << >>, invertedIndex |-> << >>]
    /\ last' = Observation("init", << >>, "catch", << >>, << >>, 0)
    /\ UNCHANGED <<blogFS, pc, posts, postList, index, cache>>
    /\ UNCHANGED concVars

\* one call of blogSearch.getSuggestions in the browser
GetSuggestions(prefix) ==
    /\ client.script \in Scripts
    /\ LET r == IF client.script = "static/search.js"
                THEN getSuggestions(client, prefix)
                ELSE getSuggestionsOneLoop(client, prefix)
       IN  last' = Observation("getSuggestions", prefix, r.path, r.result, << >>, 0)
    /\ UNCHANGED <<blogFS, pc, posts, postList, index, cache, client>>
    /\ UNCHANGED concVars

\* one call of blogSearch.search in the browser
ClientSearch(query) ==
    /\ client.script \in Scripts
    /\ LET r == jsSearch(client, query, client.script = "unnamed/part_004")
       IN  last' = Observation("clientSearch", query, r.path, r.result, << >>, 0)
    /\ UNCHANGED <<blogFS, pc, posts, postList, index, cache, client>>
    /\ UNCHANGED concVars

\* the one call of tokenize that the unit test makes after NewBlog
Tokenize(text) ==
    /\ last.op = "NewBlog"
    /\ last' = Observation("tokenize", text, "return", tokenize(text), << >>, 0)
    /\ UNCHANGED <<blogFS, pc, posts, postList, index, cache, client>>
    /\ UNCHANGED concVars

\* the one call of intersection that the unit test makes after NewBlog
Intersection(a, b) ==
    /\ last.op = "NewBlog"
    /\ last' = Observation("intersection", <<a, b>>, "return", intersection(a, b),
                           << >>, 0)
    /\ UNCHANGED <<blogFS, pc, posts, postList, index, cache, client>>
    /\ UNCHANGED concVars

\* NewBlog over an empty directory, as the unit tests construct it
InitEmptyDir == Init /\ blogFS = << >>

-----------------------------------------------------------------------------
(* Requests served concurrently, one step of one goroutine at a time       *)

RECURSIVE startedUpTo(_)
\* the number of requests taken so far by goroutines 1..p
startedUpTo(p) == IF p = 0 THEN 0 ELSE procs[p].n + startedUpTo(p - 1)

\* the server takes one more request
CanStart == startedUpTo(NumProcs) < MaxOps

\* goroutine p is at position at and not blocked in a lock call
At(p, at) == pc = "serving" /\ procs[p].pc = at /\ procs[p].blocked = ""

\* the lock operations of p so far, with `name` when the call changed mu
logged(p, mu, newMu, name) ==
    IF newMu = mu THEN procs[p].locks ELSE Append(procs[p].locks, name)

\* handleSearch begins: the query is normalized
StartSearch(p, query) ==
    /\ At(p, "idle")
    /\ CanStart
    /\ LET q == normalize(query) IN
       procs' = [procs EXCEPT ![p] =
                    [@ EXCEPT !.op = "search", !.query = query, !.q = q,
                              !.n = @ + 1,
                              !.path = IF q = << >> THEN "empty" ELSE "",
                              !.pc = IF q = << >> THEN "done" ELSE "cacheRLock"]]
    /\ UNCHANGED <<blogFS, pc, posts, postList, index, cache, client, last,
                   indexMu, cacheMu, gen, snapshot>>

\* b.searchCache.mu.RLock()
CacheRLock(p) ==
    /\ At(p, "cacheRLock")
    /\ LET r == callRLock(cacheMu, p) IN
       /\ cacheMu' = r.mu
       /\ procs' = [procs EXCEPT ![p] =
                       [@ EXCEPT !.pc = "cacheRead",
                                 !.blocked = IF r.blocked THEN "cache.R" ELSE "",
                                 !.locks = logged(p, cacheMu, r.mu, "cache.RLock")]]
    /\ UNCHANGED <<blogFS, pc, posts, postList, index, cache, client, last,
                   indexMu, gen, snapshot>>

\* the read of the cache: on a hit RUnlock and return the cached posts; on
\* a miss RUnlock and scan the tags, returning the matches when there are
\* any and going on to the token loop otherwise.  The scan visits the
\* posts in an order of the map; as in scanOrders, only the order of the
\* posts that carry the tag matters.
CacheRead(p) ==
    /\ At(p, "cacheRead")
    /\ LET me == procs[p] IN
       IF me.q \in DOMAIN cache
       THEN /\ cacheMu' = hitRUnlock(cacheMu, p)
            /\ procs' = [procs EXCEPT ![p] =
                   [@ EXCEPT !.pc = "done", !.path = "cache",
                             !.result = getPostsByIDs(posts, cache[me.q]),
                             !.locks = logged(p, cacheMu, cacheMu', "cache.RUnlock")]]
       ELSE /\ cacheMu' = callRUnlock(cacheMu, p)
            /\ \E tagged \in {{id \in DOMAIN posts : hasTag(posts[id], TrimSpace(me.q))}} :
               \E order \in IterOrders(tagged) :
                 LET tm == tagMatches(posts, order, TrimSpace(me.q)) IN
                 procs' = [procs EXCEPT ![p] =
                    IF Len(tm) > 0
                    THEN [@ EXCEPT !.pc = "done", !.path = "tag",
                                   !.result = sortSlice(posts, tm),
                                   !.locks = logged(p, cacheMu, cacheMu', "cache.RUnlock")]
                    ELSE [@ EXCEPT !.pc = "indexRLock",
                                   !.words = tokenize(me.q),
                                   !.locks = logged(p, cacheMu, cacheMu', "cache.RUnlock")]]
    /\ UNCHANGED <<blogFS, pc, posts, postList, index, cache, client, last,
                   indexMu, gen, snapshot>>

\* b.invertedIndex.mu.RLock() before the token loop
IndexRLock(p) ==
    /\ At(p, "indexRLock")
    /\ LET r == walkRLock(indexMu, p) IN
       /\ indexMu' = r.mu
       /\ procs' = [procs EXCEPT ![p] =
                       [@ EXCEPT !.pc = "walk", !.i = 1,
                                 !.blocked = IF r.blocked THEN "index.R" ELSE "",
                                 !.locks = logged(p, indexMu, r.mu, "index.RLock")]]
    /\ UNCHANGED <<blogFS, pc, posts, postList, index, cache, client, last,
                   cacheMu, gen, snapshot>>

\* one round of the token loop: the read of the index map for one word
Walk(p) ==
    /\ At(p, "walk")
    /\ LET me == procs[p] IN
       IF me.i > Len(me.words)
       THEN procs' = [procs EXCEPT ![p] = [@ EXCEPT !.pc = "indexRUnlock"]]
       ELSE LET postIDs == Lookup(index, ToLower(me.words[me.i]))
                m == IF me.i = 1 THEN postIDs ELSE intersection(me.ids, postIDs)
            IN  procs' = [procs EXCEPT ![p] =
                   [@ EXCEPT !.ids = m, !.lookups = @ + 1,
                             !.i = @ + 1,
                             !.pc = IF Len(m) = 0 THEN "indexRUnlock" ELSE "walk"]]
    /\ UNCHANGED <<blogFS, pc, posts, postList, index, cache, client, last,
                   indexMu, cacheMu, gen, snapshot>>

\* b.invertedIndex.mu.RUnlock() after the token loop
IndexRUnlock(p) ==
    /\ At(p, "indexRUnlock")
    /\ indexMu' = callRUnlock(indexMu, p)
    /\ procs' = [procs EXCEPT ![p] =
                    [@ EXCEPT !.pc = "cacheLock",
                              !.locks = logged(p, indexMu, indexMu', "index.RUnlock")]]
    /\ UNCHANGED <<blogFS, pc, posts, postList, index, cache, client, last,
                   cacheMu, gen, snapshot>>

\* b.searchCache.mu.Lock()
CacheLock(p) ==
    /\ At(p, "cacheLock")
    /\ LET r == callLock(cacheMu, p) IN
       /\ cacheMu' = r.mu
       /\ procs' = [procs EXCEPT ![p] =
                       [@ EXCEPT !.pc = "cacheStore",
                                 !.blocked = IF r.blocked THEN "cache.W" ELSE "",
                                 !.locks = logged(p, cacheMu, r.mu, "cache.Lock")]]
    /\ UNCHANGED <<blogFS, pc, posts, postList, index, cache, client, last,
                   indexMu, gen, snapshot>>

\* the write of the cache entry, Unlock, and the posts of the matching IDs
CacheStore(p) ==
    /\ At(p, "cacheStore")
    /\ LET me == procs[p] IN
       /\ cache' = storeResult(cache, me.q, me.ids)
       /\ cacheMu' = callUnlock(cacheMu, p)
       /\ procs' = [procs EXCEPT ![p] =
                       [@ EXCEPT !.pc = "done", !.path = "token",
                                 !.result = getPostsByIDs(posts, me.ids),
                                 !.locks = logged(p, cacheMu, cacheMu', "cache.Unlock")]]
    /\ UNCHANGED <<blogFS, pc, posts, postList, index, client, last,
                   indexMu, gen, snapshot>>

\* a call of buildInvertedIndex begins
StartRebuild(p) ==
    /\ At(p, "idle")
    /\ CanStart
    /\ procs' = [procs EXCEPT ![p] =
                    [@ EXCEPT !.op = "build", !.n = @ + 1, !.pc = "indexLock"]]
    /\ UNCHANGED <<blogFS, pc, posts, postList, index, cache, client, last,
                   indexMu, cacheMu, gen, snapshot>>

\* b.invertedIndex.mu.Lock()
IndexLock(p) ==
    /\ At(p, "indexLock")
    /\ LET r == buildLock(indexMu, p) IN
       /\ indexMu' = r.mu
       /\ procs' = [procs EXCEPT ![p] =
                       [@ EXCEPT !.pc = "replace",
                                 !.blocked = IF r.blocked THEN "index.W" ELSE "",
                                 !.locks = logged(p, indexMu, r.mu, "index.Lock")]]
    /\ UNCHANGED <<blogFS, pc, posts, postList, index, cache, client, last,
                   cacheMu, gen, snapshot>>

\* b.invertedIndex.index = make(map[string][]string)
Replace(p) ==
    /\ At(p, "replace")
    /\ index' = << >>
    /\ gen' = allocate(gen)
    /\ procs' = [procs EXCEPT ![p] =
                    [@ EXCEPT !.todo = DOMAIN posts,
                              !.pc = IF DOMAIN posts = {} THEN "indexUnlock" ELSE "fill"]]
    /\ UNCHANGED <<blogFS, pc, posts, postList, cache, client, last,
                   indexMu, cacheMu, snapshot>>

\* one round of the loop over b.posts: the words of one post are added
Fill(p) ==
    /\ At(p, "fill")
    /\ \E id \in procs[p].todo :
          /\ \E words \in {tokenize(indexedText(posts[id]))} :
                index' = addWords(index, words, 1, id)
          /\ procs' = [procs EXCEPT ![p] =
                [@ EXCEPT !.todo = @ \ {id},
                          !.pc = IF procs[p].todo = {id} THEN "indexUnlock" ELSE "fill"]]
    /\ UNCHANGED <<blogFS, pc, posts, postList, cache, client, last,
                   indexMu, cacheMu, gen, snapshot>>

\* the deferred b.invertedIndex.mu.Unlock()
IndexUnlock(p) ==
    /\ At(p, "indexUnlock")
    /\ indexMu' = callUnlock(indexMu, p)
    /\ procs' = [procs EXCEPT ![p] =
                    [@ EXCEPT !.pc = "done",
                              !.locks = logged(p, indexMu, indexMu', "index.Unlock")]]
    /\ UNCHANGED <<blogFS, pc, posts, postList, index, cache, client, last,
                   cacheMu, gen, snapshot>>

\* handleSearchIndex begins: NewSearchIndex collects the posts of postList
StartExport(p) ==
    /\ At(p, "idle")
    /\ CanStart
    /\ procs' = [procs EXCEPT ![p] =
                    [@ EXCEPT !.op = "export", !.n = @ + 1, !.pc = "exportRLock"]]
    /\ UNCHANGED <<blogFS, pc, posts, postList, index, cache, client, last,
                   indexMu, cacheMu, gen, snapshot>>

\* b.invertedIndex.mu.RLock() of NewSearchIndex
ExportRLock(p) ==
    /\ At(p, "exportRLock")
    /\ LET r == callRLock(indexMu, p) IN
       /\ indexMu' = r.mu
       /\ procs' = [procs EXCEPT ![p] =
                       [@ EXCEPT !.pc = "exportCopy",
                                 !.blocked = IF r.blocked THEN "index.R" ELSE "",
                                 !.locks = logged(p, indexMu, r.mu, "index.RLock")]]
    /\ UNCHANGED <<blogFS, pc, posts, postList, index, cache, client, last,
                   cacheMu, gen, snapshot>>

\* the copy of the index map, entry by entry, and RUnlock.  An entry of the
\* copy is the slice of the live map: it shares the storage of the list,
\* which is the storage of the lists made by map number gen.
ExportCopy(p) ==
    /\ At(p, "exportCopy")
    /\ LET data == NewSearchIndex(posts, postList, index) IN
       snapshot' = [taken |-> TRUE, gen |-> gen, posts |-> data.posts,
                    invertedIndex |-> data.invertedIndex]
    /\ indexMu' = callRUnlock(indexMu, p)
    /\ procs' = [procs EXCEPT ![p] =
                    [@ EXCEPT !.pc = "done",
                              !.locks = logged(p, indexMu, indexMu', "index.RUnlock")]]
    /\ UNCHANGED <<blogFS, pc, posts, postList, index, cache, client, last,
                   cacheMu, gen>>

\* handleSuggestions, which reads b.posts only
Suggest(p, prefix) ==
    /\ At(p, "idle")
    /\ CanStart
    /\ \E order1 \in tagOrders(posts, prefix), order2 \in titleOrders(posts, prefix) :
          procs' = [procs EXCEPT ![p] =
                [@ EXCEPT !.op = "suggest", !.query = prefix, !.n = @ + 1,
                          !.path = "return", !.pc = "done",
                          !.result = handleSuggestions(posts, prefix, order1, order2)]]
    /\ UNCHANGED <<blogFS, pc, posts, postList, index, cache, client, last,
                   indexMu, cacheMu, gen, snapshot>>

\* a call of LoadPosts while the server answers requests: ReadDir
StartLoad(p) ==
    /\ At(p, "idle")
    /\ CanStart
    /\ procs' = [procs EXCEPT ![p] =
                    [@ EXCEPT !.op = "load", !.n = @ + 1, !.pc = "loadFile",
                              !.todo = DOMAIN blogFS]]
    /\ UNCHANGED <<blogFS, pc, posts, postList, index, cache, client, last,
                   indexMu, cacheMu, gen, snapshot>>

\* one round of the loop over the entries, in the order of ReadDir: the
\* post of the next file is put in the map and appended to the list
LoadFile(p) ==
    /\ At(p, "loadFile")
    /\ IF procs[p].todo = {}
       THEN /\ procs' = [procs EXCEPT ![p] = [@ EXCEPT !.pc = "loadSort"]]
            /\ UNCHANGED <<posts, postList>>
       ELSE LET n == CHOOSE f \in procs[p].todo : \A g \in procs[p].todo : f <= g IN
            /\ posts' = [id \in DOMAIN posts \cup {n} |->
                            IF id = n THEN blogFS[n] ELSE posts[id]]
            /\ postList' = Append(postList, n)
            /\ procs' = [procs EXCEPT ![p] = [@ EXCEPT !.todo = @ \ {n}]]
    /\ UNCHANGED <<blogFS, pc, index, cache, client, last,
                   indexMu, cacheMu, gen, snapshot>>

\* sort.Slice(b.postList, ...), after which buildInvertedIndex is called
LoadSort(p) ==
    /\ At(p, "loadSort")
    /\ postList' = sortSlice(posts, postList)
    /\ procs' = [procs EXCEPT ![p] = [@ EXCEPT !.pc = "indexLock"]]
    /\ UNCHANGED <<blogFS, pc, posts, index, cache, client, last,
                   indexMu, cacheMu, gen, snapshot>>

\* a goroutine blocked in RLock or Lock goes on
Wake(p) ==
    /\ pc = "serving"
    /\ procs[p].blocked \in {"index.R", "index.W"}
    /\ LET side == IF procs[p].blocked = "index.R" THEN "R" ELSE "W" IN
       /\ canWake(indexMu, p, side)
       /\ LET r == wake(indexMu, p, side) IN
          /\ indexMu' = r.mu
          /\ procs' = [procs EXCEPT ![p] =
                [@ EXCEPT !.blocked = IF r.blocked THEN procs[p].blocked ELSE ""]]
    /\ UNCHANGED <<blogFS, pc, posts, postList, index, cache, client, last,
                   cacheMu, gen, snapshot>>

WakeCache(p) ==
    /\ pc = "serving"
    /\ procs[p].blocked \in {"cache.R", "cache.W"}
    /\ LET side == IF procs[p].blocked = "cache.R" THEN "R" ELSE "W" IN
       /\ canWake(cacheMu, p, side)
       /\ LET r == wake(cacheMu, p, side) IN
          /\ cacheMu' = r.mu
          /\ procs' = [procs EXCEPT ![p] =
                [@ EXCEPT !.blocked = IF r.blocked THEN procs[p].blocked ELSE ""]]
    /\ UNCHANGED <<blogFS, pc, posts, postList, index, cache, client, last,
                   indexMu, gen, snapshot>>

\* the handler returns and the goroutine is free for the next request
Return(p) ==
    /\ At(p, "done")
    /\ procs' = [procs EXCEPT ![p] = IdleProc(procs[p].n)]
    /\ UNCHANGED <<blogFS, pc, posts, postList, index, cache, client, last,
                   indexMu, cacheMu, gen, snapshot>>

\* the steps of goroutine p within a request
ProcStep(p) ==
    \/ CacheRLock(p) \/ CacheRead(p) \/ IndexRLock(p) \/ Walk(p)
    \/ IndexRUnlock(p) \/ CacheLock(p) \/ CacheStore(p)
    \/ IndexLock(p) \/ Replace(p) \/ Fill(p) \/ IndexUnlock(p)
    \/ ExportRLock(p) \/ ExportCopy(p)
    \/ Wake(p) \/ WakeCache(p) \/ Return(p)

\* the requests that can arrive at goroutine p
ProcStart(p) ==
    \/ \E query \in ConcQueries : StartSearch(p, query)
    \/ StartRebuild(p)
    \/ StartExport(p)
    \/ \E prefix \in ConcPrefixes : Suggest(p, prefix)

\* the server: load once, then answer search requests
Next ==
    \/ LoadPosts
    \/ \E query \in Queries : Search(query)

Spec == Init /\ [][Next]_vars

\* index construction alone: load once, then rebuild any number of times
NextIndex ==
    \/ LoadPosts
    \/ BuildInvertedIndex

SpecIndex == Init /\ [][NextIndex]_vars

\* suggestions, on the server and in the browser
NextSuggest ==
    \/ LoadPosts
    \/ \E prefix \in Prefixes : Suggestions(prefix)
    \/ \E script \in Scripts : ClientInit(script)
    \/ \E script \in Scripts : ClientInitFailed(script)
    \/ \E prefix \in Prefixes : GetSuggestions(prefix)

SpecSuggest == Init /\ [][NextSuggest]_vars

\* the same requests over directories whose files share tags
SpecSuggestTags == InitTags /\ [][NextSuggest]_vars

\* search on the server and, over the exported index, in the browser
NextClient ==
    \/ LoadPosts
    \/ \E query \in Queries : Search(query)
    \/ \E script \in Scripts : ClientInit(script)
    \/ \E query \in ClientQueries : ClientSearch(query)

SpecClient == Init /\ [][NextClient]_vars

\* the collection loaded once by main and loaded again after that
NextReload ==
    \/ LoadPosts
    \/ Reload

SpecReload == Init /\ [][NextReload]_vars

\* the helper functions called on their own
NextFunctions ==
    \/ \E text \in Texts : Tokenize(text)
    \/ \E a, b \in IDLists : Intersection(a, b)

SpecFunctions == InitEmptyDir /\ [][NextFunctions]_vars

\* directories of at most two posts that all carry the same date
ConcCorpora == {fs \in Corpora : /\ Cardinality(DOMAIN fs) <= 2
                                 /\ \A n \in DOMAIN fs : fs[n].Date = 1}

InitConc == Init /\ blogFS \in ConcCorpora

\* the server under concurrent requests: searches, suggestions, exports of
\* the index and rebuilds of the index
NextConc ==
    \/ LoadPosts
    \/ \E p \in Procs : ProcStart(p)
    \/ \E p \in Procs : ProcStep(p)

SpecConc == InitConc /\ [][NextConc]_vars

\* the scheduler runs every goroutine that can take a step
SpecConcFair == SpecConc /\ \A p \in Procs : WF_vars(ProcStep(p))

\* the server when LoadPosts, an exported method without a lock of its own,
\* is also called while requests are answered
NextLoad ==
    \/ LoadPosts
    \/ \E p \in Procs : ProcStart(p)
    \/ \E p \in Procs : ProcStep(p)
    \/ \E p \in Procs : StartLoad(p)
    \/ \E p \in Procs : LoadFile(p)
    \/ \E p \in Procs : LoadSort(p)

SpecLoad == InitConc /\ [][NextLoad]_vars

-----------------------------------------------------------------------------
(* Vocabulary of the properties, stated without the operators above        *)

\* s consists of whitespace only (the empty string included)
AllBlank(s) == \A i \in DOMAIN s : s[i] \in Whitespace

\* a and b are the same string up to letter case
SameFold(a, b) ==
    /\ Len(a) = Len(b)
    /\ \A i \in DOMAIN a : ToLowerCh(a[i]) = ToLowerCh(b[i])

\* the posts that carry a tag equal to q up to letter case
TaggedWith(q) ==
    {id \in DOMAIN posts : \E i \in DOMAIN posts[id].Tags : SameFold(posts[id].Tags[i], q)}

\* token t (lowercase) occurs in text as a maximal alphanumeric run, in any
\* letter case
OccursAsRun(text, t) ==
    \E i \in 1..Len(text) : \E j \in i..Len(text) :
        /\ \A k \in i..j : IsAlnum(text[k])
        /\ i = 1 \/ ~IsAlnum(text[i - 1])
        /\ j = Len(text) \/ ~IsAlnum(text[j + 1])
        /\ ToLower(SubSeq(text, i, j)) = t

\* the lowercase tokens of a query
QueryTokens(query) == {ToLower(w) : w \in Range(tokenize(normalize(query)))}

\* the posts whose title + " " + body contains every token of the query
ContainingAll(query) ==
    {id \in DOMAIN posts :
        \A t \in QueryTokens(query) : OccursAsRun(indexedText(posts[id]), t)}

\* s is ordered newest first
NewestFirst(s) ==
    \A i \in 1..(Len(s) - 1) : posts[s[i]].Date >= posts[s[i + 1]].Date

NoDuplicates(s) == \A i, j \in DOMAIN s : i # j => s[i] # s[j]

-----------------------------------------------------------------------------
(* Properties of the query resolver, under Spec                            *)

\* C1 - tag precedence: when some post carries a tag equal, up to letter
\* case, to the normalized query, search returns exactly the posts that
\* carry that tag, whatever searches ran before; a post that only contains
\* the query as a word is not returned.
TagPrecedence ==
    (last.op = "search" /\ TaggedWith(normalize(last.query)) # {}) =>
        /\ Range(last.result) = TaggedWith(normalize(last.query))
        /\ NoDuplicates(last.result)

\* a tag query was answered after earlier searches filled the cache, and a
\* post that contains the query word without carrying the tag was left out
TagPrecedenceWitness ==
    /\ last.op = "search"
    /\ DOMAIN cache # {}
    /\ TaggedWith(normalize(last.query)) # {}
    /\ \E id \in DOMAIN posts \ Range(last.result) :
           \A t \in QueryTokens(last.query) : OccursAsRun(indexedText(posts[id]), t)
    /\ \E id \in Range(last.result) :
           \E t \in QueryTokens(last.query) : ~OccursAsRun(indexedText(posts[id]), t)

\* C2 as stated - for every query that matches no tag, search returns
\* exactly the posts that contain every token of the query.
AndSemanticsAnyQuery ==
    (last.op = "search" /\ TaggedWith(normalize(last.query)) = {}) =>
        Range(last.result) = ContainingAll(last.query)

\* C2 amended - for every query that matches no tag and has at least one
\* token, search returns exactly the posts that contain every token of the
\* query; a query without a token (empty, blank or symbols only) returns
\* the empty sequence.
AndSemantics ==
    (last.op = "search" /\ TaggedWith(normalize(last.query)) = {}) =>
        IF QueryTokens(last.query) = {}
        THEN last.result = << >>
        ELSE /\ Range(last.result) = ContainingAll(last.query)
             /\ NoDuplicates(last.result)

\* a two-token query returned a post while other posts contain only one of
\* its tokens
AndSemanticsWitness ==
    /\ last.op = "search"
    /\ last.path = "token"
    /\ Cardinality(QueryTokens(last.query)) = 2
    /\ last.result # << >>
    /\ \A t \in QueryTokens(last.query) :
           \E id \in DOMAIN posts \ Range(last.result) :
               OccursAsRun(indexedText(posts[id]), t)

\* C3 - cache coherence: two consecutive searches of the same query return
\* the same ordered sequence, and the second reads nothing from the index.
CacheCoherence ==
    [][(last.op = "search" /\ last'.op = "search" /\ last'.query = last.query) =>
           (last'.result = last.result /\ last'.lookups = 0)]_vars

\* C4 - empty query: a search whose query is empty after trimming returns
\* the empty result, leaves the cache as it was and takes no lock.
EmptyQuery ==
    [][(last'.op = "search" /\ AllBlank(last'.query)) =>
           (cache' = cache /\ last'.result = << >> /\ last'.locks = << >>)]_vars

\* a blank, non-empty query was answered while the cache held entries
EmptyQueryWitness ==
    /\ last.op = "search"
    /\ last.query # << >>
    /\ AllBlank(last.query)
    /\ last.path = "empty"
    /\ DOMAIN cache # {}

\* C5 - ordering: every sequence search returns is ordered newest first.
Ordering == last.op = "search" => NewestFirst(last.result)

\* a cache hit returned two posts of different dates
OrderingWitness ==
    /\ last.op = "search"
    /\ last.path = "cache"
    /\ Len(last.result) >= 2
    /\ posts[last.result[1]].Date > posts[last.result[Len(last.result)]].Date

\* C6 - deterministic tie-break: two runs of search for the same query over
\* the same collection put posts of equal date in the same relative order.
DeterministicTieBreak ==
    [][(last.op = "search" /\ last'.op = "search" /\ last'.query = last.query) =>
           \A i, j \in DOMAIN last.result : \A k, l \in DOMAIN last'.result :
               (/\ i < j
                /\ posts[last.result[i]].Date = posts[last.result[j]].Date
                /\ last'.result[k] = last.result[i]
                /\ last'.result[l] = last.result[j]) => k < l]_vars

\* the number of whitespace characters s starts with, and ends with
LeadingBlanks(s) == Cardinality({i \in 1..Len(s) : \A j \in 1..i : s[j] \in Whitespace})
TrailingBlanks(s) == Cardinality({i \in 1..Len(s) : \A j \in i..Len(s) : s[j] \in Whitespace})

\* s without the whitespace around it
Core(s) == IF AllBlank(s) THEN << >>
           ELSE SubSeq(s, LeadingBlanks(s) + 1, Len(s) - TrailingBlanks(s))

\* a and b differ only in letter case and in leading or trailing whitespace
SameQuery(a, b) == SameFold(Core(a), Core(b))

\* the pairs of distinct request strings that differ in this way only
SameQueryPairs == {pair \in Queries \X Queries :
                      pair[1] # pair[2] /\ SameQuery(pair[1], pair[2])}

\* the sequences search can return for a query in the current state, one
\* for every order in which the tag scan can visit the posts
Outcomes(query) ==
    {search(posts, index, cache, query, order).result :
        order \in scanOrders(posts, cache, query)}

ShortIDLists == UNION {[1..n -> 1..(MaxListLen + 1)] : n \in 0..2}

\* C19 - referential integrity: in every reachable state every ID in a
\* posting list of the index and every ID in a value of the cache is the ID
\* of a post of the collection, every post search returns is in the
\* collection, and an ID list that names a missing post is mapped to the
\* posts that exist, the missing ID dropped.
ReferentialIntegrity ==
    /\ \A w \in DOMAIN index : Range(index[w]) \subseteq DOMAIN posts
    /\ \A k \in DOMAIN cache : Range(cache[k]) \subseteq DOMAIN posts
    /\ last.op = "search" => Range(last.result) \subseteq DOMAIN posts
    /\ \A ids \in ShortIDLists :
           Range(getPostsByIDs(posts, ids)) = Range(ids) \cap DOMAIN posts

\* a search was answered from a cache entry that names posts, over a
\* collection that lacks some of the IDs the lists are drawn from
ReferentialIntegrityWitness ==
    /\ last.op = "search"
    /\ last.path = "cache"
    /\ last.result # << >>
    /\ \E k \in DOMAIN cache : Len(cache[k]) >= 2
    /\ \E ids \in ShortIDLists : Range(ids) \cap DOMAIN posts # {}
                                  /\ Range(ids) \ DOMAIN posts # {}

\* C20 - tag results are not cached: a search that returns through the
\* exact tag match leaves the cache exactly as it was before the call and
\* reads nothing from the inverted index.
TagPathFrame ==
    [][(last'.op = "search"
          /\ (last'.path = "tag" \/ TaggedWith(normalize(last'.query)) # {})) =>
             /\ cache' = cache
             /\ last'.lookups = 0
             /\ \A i \in DOMAIN last'.locks :
                    last'.locks[i] \notin {"index.RLock", "cache.Lock"}]_vars

\* a tag query was answered while the cache held other entries and the
\* index held a posting list for the query word
TagPathFrameWitness ==
    /\ last.op = "search"
    /\ last.path = "tag"
    /\ last.result # << >>
    /\ DOMAIN cache # {}
    /\ normalize(last.query) \notin DOMAIN cache
    /\ Lookup(index, normalize(last.query)) # << >>

\* C21 - token results are cached: after a search that went through the
\* token loop, the cache maps the normalized query to the ID list the call
\* computed - the posts that contain every token, none twice, and the empty
\* list for a query that has no token or no match - and the returned posts
\* are exactly the posts of that list.
TokenResultsCached ==
    (last.op = "search" /\ last.path = "token") =>
        /\ normalize(last.query) # << >>
        /\ normalize(last.query) \in DOMAIN cache
        /\ LET ids == cache[normalize(last.query)] IN
           /\ NoDuplicates(ids)
           /\ Range(ids) = IF QueryTokens(last.query) = {} THEN {}
                           ELSE ContainingAll(last.query)
           /\ Range(last.result) = Range(ids)
           /\ Len(last.result) = Len(ids)

\* a query with a match was answered through the token loop after a query
\* of symbols only and a query without a match were, and the cache holds
\* the empty list for both of these
TokenResultsCachedWitness ==
    /\ last.op = "search"
    /\ last.path = "token"
    /\ last.result # << >>
    /\ Lookup(cache, <<"?","!">>) = << >> /\ <<"?","!">> \in DOMAIN cache
    /\ \E k \in DOMAIN cache : /\ tokenize(k) # << >>
                               /\ cache[k] = << >>

-----------------------------------------------------------------------------
(* Properties of the inverted index, under SpecIndex                       *)

Substrings(s) == {SubSeq(s, i, j) : i \in 1..Len(s), j \in 1..Len(s)}

\* lowercase alphanumeric strings to ask the index about: every lowercase
\* alphanumeric piece of a loaded text (runs and parts of runs), every key
\* of the index, and a word no text contains
CandidateTokens ==
    LET pieces == UNION {Substrings(ToLower(indexedText(posts[id]))) : id \in DOMAIN posts}
    IN  {t \in pieces \cup DOMAIN index \cup {<<"p","y">>} :
            t # << >> /\ \A i \in DOMAIN t : t[i] \in LowerSet \cup Digits}

\* C7 - index invariant: once the index is built, post D is in the posting
\* list of lowercase token T exactly when T occurs, in any letter case, as
\* a maximal alphanumeric run of D.Title + " " + D.Content; a token that
\* occurs nowhere has an empty posting list.
IndexInvariant ==
    pc = "serving" =>
        \A t \in CandidateTokens :
            /\ \A id \in DOMAIN posts :
                   contains(Lookup(index, t), id) <=> OccursAsRun(indexedText(posts[id]), t)
            /\ (\A id \in DOMAIN posts : ~OccursAsRun(indexedText(posts[id]), t))
                   => Lookup(index, t) = << >>
            /\ Range(Lookup(index, t)) \subseteq DOMAIN posts

\* the index was built over a post that holds a token only in upper case
\* and over a post that holds "go" only inside a longer run
IndexInvariantWitness ==
    /\ pc = "serving"
    /\ \E id \in DOMAIN posts :
           /\ contains(Lookup(index, <<"r","u","s","t">>), id)
           /\ ~Contains(indexedText(posts[id]), <<"r","u","s","t">>)
    /\ \E id \in DOMAIN posts :
           /\ Contains(indexedText(posts[id]), <<"g","o">>)
           /\ ~contains(Lookup(index, <<"g","o">>), id)
    /\ Lookup(index, <<"g","o">>) # << >>

\* C8 - rebuild idempotence: building the index again from the same
\* collection yields, for every token, the same set of post IDs, whatever
\* order the posts are visited in by either build.
RebuildIdempotent ==
    [][last'.op = "build" =>
           /\ DOMAIN index' = DOMAIN index
           /\ \A t \in DOMAIN index : Range(index'[t]) = Range(index[t])]_vars

\* a rebuild visited the posts in an order that is not the order of IDs
RebuildIdempotentWitness ==
    /\ last.op = "build"
    /\ \E t \in DOMAIN index :
           /\ Len(index[t]) >= 2
           /\ index[t][1] > index[t][2]
    /\ \E t \in DOMAIN index :
           /\ Len(index[t]) >= 2
           /\ index[t][1] < index[t][2]

\* C30 - the cache never shadows a tag: over a fixed collection no key of
\* the cache equals, up to letter case, a tag of a post, so a query that
\* matches a tag is never answered from the cache.
CacheNeverShadowsTag ==
    /\ \A k \in DOMAIN cache :
           \A id \in DOMAIN posts : \A i \in DOMAIN posts[id].Tags :
               ~SameFold(posts[id].Tags[i], k)
    /\ (last.op = "search" /\ last.path = "cache") =>
           TaggedWith(normalize(last.query)) = {}

\* a query was answered from the cache while the cache holds a key that
\* has a tag of a post among its words, and a post carries the tag "go"
\* that the index lists as a word too
CacheNeverShadowsTagWitness ==
    /\ last.op = "search"
    /\ last.path = "cache"
    /\ \E k \in DOMAIN cache : \E id \in DOMAIN posts : \E i \in DOMAIN posts[id].Tags :
           ToLower(posts[id].Tags[i]) \in Range(tokenize(k))
    /\ TaggedWith(<<"g","o">>) # {}
    /\ Lookup(index, <<"g","o">>) # << >>

\* the client holds the index that the server exports in this state
HoldsSnapshot ==
    /\ client.initialized
    /\ client.posts = NewSearchIndex(posts, postList, index).posts
    /\ client.invertedIndex = NewSearchIndex(posts, postList, index).invertedIndex

\* C27 - client/server search equivalence: for every collection and every
\* query, BlogSearch.search run over the exported index returns the IDs of
\* the same set of posts as Blog.search returns for the query over the
\* collection and the index that were exported.
SearchEquivalence ==
    (last.op = "clientSearch" /\ HoldsSnapshot) =>
        \A order \in scanOrders(posts, cache, last.query) :
            /\ last.path = "return"
            /\ Range(last.result) =
                   Range(search(posts, index, cache, last.query, order).result)

\* the number of runs of text that are token t up to letter case
Occurrences(text, t) ==
    Cardinality({i \in DOMAIN tokenize(text) : SameFold(tokenize(text)[i], t)})

\* C23 - deduplicated postings: after buildInvertedIndex no posting list
\* holds the same post ID twice, however many times the token occurs in the
\* title and the body of the post and in whatever letter case.
DeduplicatedPostings ==
    pc = "serving" =>
        \A t \in DOMAIN index :
            \A i, j \in DOMAIN index[t] : index[t][i] = index[t][j] => i = j

\* the index was rebuilt over a post that holds "go" three times, in two
\* letter cases, in its title and in its body, and the list of "go" names
\* that post and another one
DeduplicatedPostingsWitness ==
    /\ last.op = "build"
    /\ \E id \in DOMAIN posts :
           /\ Occurrences(indexedText(posts[id]), <<"g","o">>) = 3
           /\ Occurrences(posts[id].Title, <<"g","o">>) = 1
           /\ <<"G","o">> \in Range(tokenize(indexedText(posts[id])))
           /\ <<"g","o">> \in Range(tokenize(indexedText(posts[id])))
           /\ id \in Range(Lookup(index, <<"g","o">>))
    /\ Len(Lookup(index, <<"g","o">>)) = 2

\* C29 - collection consistency across loads: after any sequence of
\* LoadPosts calls the post list holds exactly one entry for every ID of the
\* post map and nothing else, is sorted newest first, and the index is the
\* index of that collection.
CollectionConsistent ==
    pc = "serving" =>
        /\ Range(postList) = DOMAIN posts
        /\ Len(postList) = Cardinality(DOMAIN posts)
        /\ \A i \in 1..(Len(postList) - 1) :
               posts[postList[i]].Date >= posts[postList[i + 1]].Date
        /\ IndexInvariant

-----------------------------------------------------------------------------
(* Properties of the suggestions, under SpecSuggest                        *)

\* the lowercase form of s starts with p
StartsWithFold(s, p) ==
    /\ Len(p) <= Len(s)
    /\ \A i \in 1..Len(p) : ToLowerCh(s[i]) = p[i]

\* the lowercase form of s contains p
OccursInFold(s, p) ==
    \E k \in 0..(Len(s) - Len(p)) : \A i \in 1..Len(p) : ToLowerCh(s[k + i]) = p[i]

\* the tags of the collection whose lowercase form starts with q
MatchingTags(q) ==
    {t \in UNION {Range(posts[id].Tags) : id \in DOMAIN posts} : StartsWithFold(t, q)}

\* the titles of the collection whose lowercase form contains q
MatchingTitles(q) ==
    {t \in {posts[id].Title : id \in DOMAIN posts} : OccursInFold(t, q)}

\* C9 - suggestion matching: for a prefix that is not empty after
\* normalization, one character included, and fewer than 10 matching
\* strings, the handler returns exactly the tags whose lowercase form starts
\* with the prefix and the titles whose lowercase form contains it; for an
\* empty normalized prefix it returns the empty sequence.
SuggestionMatching ==
    last.op = "suggest" =>
        LET q == normalize(last.query)
            matching == MatchingTags(q) \cup MatchingTitles(q)
        IN  IF AllBlank(last.query)
            THEN last.result = << >>
            ELSE Cardinality(matching) < SuggestLimit => Range(last.result) = matching

\* a one-character prefix was answered with a tag and with a title that
\* holds the prefix past its first character
SuggestionMatchingWitness ==
    /\ last.op = "suggest"
    /\ Len(normalize(last.query)) = 1
    /\ \E i \in DOMAIN last.result : last.result[i] \in MatchingTags(normalize(last.query))
    /\ \E i \in DOMAIN last.result :
           /\ last.result[i] \notin MatchingTags(normalize(last.query))
           /\ ~StartsWithFold(last.result[i], normalize(last.query))

\* C10 - suggestion order: in every sequence of suggestions, from the
\* server handler or from the client script, every string collected as a
\* matching tag comes before every string collected only as a matching
\* title.
TagsBeforeTitles ==
    last.op \in {"suggest", "getSuggestions"} =>
        \A i, j \in DOMAIN last.result :
            (i < j /\ last.result[j] \in MatchingTags(normalize(last.query)))
                => last.result[i] \in MatchingTags(normalize(last.query))


\* C28 - client/server suggestion equivalence: for every collection and
\* every prefix, a prefix of one character included, BlogSearch.getSuggestions
\* over the exported index returns the same set of strings as the server's
\* suggestion handler returns for the prefix.
SuggestionEquivalence ==
    (last.op = "getSuggestions" /\ HoldsSnapshot) =>
        \A order1 \in tagOrders(posts, last.query),
           order2 \in titleOrders(posts, last.query) :
            /\ last.path = "return"
            /\ Range(last.result) =
                   Range(handleSuggestions(posts, last.query, order1, order2))

\* C11 - suggestion bounds: every sequence of suggestions, from the server
\* handler or from the client script, has at most 10 entries and holds no
\* string twice, also when a string is a tag of several posts or both a tag
\* and a title.
SuggestionBounds ==
    last.op \in {"suggest", "getSuggestions"} =>
        /\ Len(last.result) <= SuggestLimit
        /\ NoDuplicates(last.result)

\* the handler answered with 10 strings while more than 10 match, and a
\* returned string is a tag of two posts and the title of a third
SuggestionBoundsWitness ==
    /\ last.op = "suggest"
    /\ Len(last.result) = SuggestLimit
    /\ Cardinality(MatchingTags(normalize(last.query))
                    \cup MatchingTitles(normalize(last.query))) > SuggestLimit
    /\ \E i \in DOMAIN last.result :
           /\ Cardinality({id \in DOMAIN posts :
                               last.result[i] \in Range(posts[id].Tags)}) >= 2
           /\ \E id \in DOMAIN posts : posts[id].Title = last.result[i]


-----------------------------------------------------------------------------
(* Properties of the helper functions, under SpecFunctions                 *)

\* the positions of text where a run of letters and digits starts
RunStarts(text) ==
    {i \in 1..Len(text) : IsAlnum(text[i]) /\ (i = 1 \/ ~IsAlnum(text[i - 1]))}

\* the position where the run that starts at i ends
RunEnd(text, i) ==
    CHOOSE j \in i..Len(text) :
        /\ \A k \in i..j : IsAlnum(text[k])
        /\ j = Len(text) \/ ~IsAlnum(text[j + 1])

\* the start of the k-th run from the left
KthStart(text, k) ==
    CHOOSE i \in RunStarts(text) : Cardinality({j \in RunStarts(text) : j <= i}) = k

\* C14 - tokenizer: tokenize(text) is the sequence of the maximal runs of
\* ASCII letters and digits of text, from left to right, repeated runs
\* kept and letter case as written; no token holds another character, and
\* a text without a letter or digit gives the empty sequence.
TokenizerRuns ==
    last.op = "tokenize" =>
        LET text == last.query
            tokens == last.result
        IN  /\ Len(tokens) = Cardinality(RunStarts(text))
            /\ \A k \in DOMAIN tokens :
                   tokens[k] = SubSeq(text, KthStart(text, k),
                                      RunEnd(text, KthStart(text, k)))
            /\ \A k \in DOMAIN tokens : \A i \in DOMAIN tokens[k] :
                   tokens[k][i] \in UpperSet \cup LowerSet \cup Digits
            /\ (\A i \in DOMAIN text : ~IsAlnum(text[i])) => tokens = << >>

\* a text held the same uppercase run twice, around a symbol
TokenizerRunsWitness ==
    /\ last.op = "tokenize"
    /\ Len(last.result) = 2
    /\ last.result[1] = last.result[2]
    /\ last.result[1][1] \in UpperSet

\* C15 - intersection: for two ID lists without duplicates,
\* intersection(a, b) holds exactly the IDs that are in both, each once,
\* and intersection(b, a) holds the same set of IDs.
IntersectionSet ==
    (/\ last.op = "intersection"
     /\ NoDuplicates(last.query[1])
     /\ NoDuplicates(last.query[2])) =>
        /\ Range(last.result) = Range(last.query[1]) \cap Range(last.query[2])
        /\ NoDuplicates(last.result)
        /\ Range(intersection(last.query[2], last.query[1])) = Range(last.result)

\* two lists without duplicates, neither within the other, shared two IDs
\* that they hold in opposite orders
IntersectionSetWitness ==
    /\ last.op = "intersection"
    /\ NoDuplicates(last.query[1])
    /\ NoDuplicates(last.query[2])
    /\ Len(last.result) = 2
    /\ intersection(last.query[2], last.query[1]) # last.result
    /\ Range(last.query[1]) \ Range(last.query[2]) # {}
    /\ Range(last.query[2]) \ Range(last.query[1]) # {}


-----------------------------------------------------------------------------
(* Properties of concurrent requests, under SpecConc and SpecConcFair      *)

\* goroutine p is inside the token loop of search: between the return of
\* RLock and the call of RUnlock
InWalk(p) ==
    /\ procs[p].op = "search"
    /\ procs[p].pc \in {"walk", "indexRUnlock"}
    /\ procs[p].blocked = ""

\* goroutine p is replacing or filling the index map: between the return
\* of Lock and the call of Unlock
InRebuild(p) ==
    /\ procs[p].op = "build"
    /\ procs[p].pc \in {"replace", "fill", "indexUnlock"}
    /\ procs[p].blocked = ""

\* C16 - rebuild exclusion: in every interleaving of searches and rebuilds
\* no search is inside its token loop while a rebuild replaces or fills the
\* index map, and no two rebuilds write the map at the same time; searches
\* may be inside the loop together (SharedWalk is reached).
RebuildExclusion ==
    \A p, r \in Procs :
        /\ ~(InWalk(p) /\ InRebuild(r))
        /\ (InRebuild(p) /\ InRebuild(r)) => p = r

\* a rebuild waits in Lock while a search is inside its token loop and has
\* read the index for the first of two words
RebuildExclusionWitness ==
    \E p, r \in Procs :
        /\ InWalk(p)
        /\ procs[p].lookups = 1
        /\ Len(procs[p].words) = 2
        /\ procs[r].op = "build"
        /\ procs[r].blocked = "index.W"

\* two searches are inside the token loop at the same time
SharedWalk == \E p, r \in Procs : p # r /\ InWalk(p) /\ InWalk(r)

\* the lock operations that goroutine p made in the request it has finished
LocksOf(p) == Range(procs[p].locks)

Finished(p, op) == procs[p].pc = "done" /\ procs[p].op = op

\* C17 as stated - read-lock discipline: every search and every suggestion
\* lookup takes the read lock of the index while it runs, and every rebuild
\* takes the write lock.
ReadLockDiscipline ==
    \A p \in Procs :
        /\ (Finished(p, "search") \/ Finished(p, "suggest")) => "index.RLock" \in LocksOf(p)
        /\ Finished(p, "build") => "index.Lock" \in LocksOf(p)

\* C17 amended - a search takes the read lock of the index exactly when it
\* reaches the token loop, and holds it for as long as it reads the index;
\* a search that returns for an empty query, from the cache or from the tag
\* match reads nothing from the index and takes no lock of the index; a
\* suggestion lookup takes no lock at all; every rebuild takes the write
\* lock and holds it while it writes the index.
IndexLockDiscipline ==
    \A p \in Procs :
        /\ Finished(p, "search") =>
               /\ "index.RLock" \in LocksOf(p) <=> procs[p].path = "token"
               /\ procs[p].path # "token" => procs[p].lookups = 0
        /\ Finished(p, "suggest") => procs[p].locks = << >>
        /\ Finished(p, "build") => "index.Lock" \in LocksOf(p)
        /\ InWalk(p) => p \in indexMu.readers
        /\ InRebuild(p) => indexMu.w = p /\ indexMu.readers = {}

\* one search has finished through the token loop with the read lock
\* taken, another has finished from the tag match without it
IndexLockDisciplineWitness ==
    \E p, r \in Procs :
        /\ Finished(p, "search")
        /\ procs[p].path = "token"
        /\ procs[p].lookups = 2
        /\ "index.RLock" \in LocksOf(p)
        /\ Finished(r, "search")
        /\ procs[r].path = "tag"
        /\ "index.RLock" \notin LocksOf(r)

\* C18 - no indefinite blocking: when the scheduler is fair, every request
\* that a goroutine has begun (a search, an export, a rebuild) is finished
\* at some later time, whatever the other goroutines do; in particular no
\* goroutines wait for the cache lock and the index lock for ever.
NoIndefiniteBlocking ==
    \A p \in Procs : (procs[p].pc # "idle") ~> (procs[p].pc = "idle")

\* a rebuild waits in Lock while an export holds the read lock, and a
\* request has been served before
NoIndefiniteBlockingWitness ==
    \E p, r \in Procs :
        /\ procs[p].op = "build"
        /\ procs[p].blocked = "index.W"
        /\ procs[r].op = "export"
        /\ procs[r].pc = "exportCopy"
        /\ procs[r].blocked = ""
        /\ startedUpTo(NumProcs) = MaxOps

\* goroutine p takes the step that writes its result to the cache
Stores(p) == procs[p].pc = "cacheStore" /\ procs'[p].pc = "done"

\* C22 as stated - insert-only cache: in every interleaving of concurrent
\* searches a write to the cache adds a key that the cache does not hold;
\* a key that is present is never written again.
InsertOnlyCache ==
    [][\A p \in Procs : Stores(p) => procs[p].q \notin DOMAIN cache]_vars

\* C22 amended - in every interleaving no step removes a key from the cache
\* or changes the IDs listed under a key that is present: a write either
\* adds a new key or, when searches for the same query missed the cache
\* together, stores again under the key the IDs that are listed there.
CacheValuesKept ==
    [][/\ \A k \in DOMAIN cache :
              /\ k \in DOMAIN cache'
              /\ Range(cache'[k]) = Range(cache[k])
              /\ Len(cache'[k]) = Len(cache[k])
       /\ \A p \in Procs : Stores(p) =>
              /\ procs[p].q \in DOMAIN cache'
              /\ procs[p].q \in DOMAIN cache =>
                     Range(procs[p].ids) = Range(cache[procs[p].q])]_vars

\* two searches for the same query both went through the token loop and
\* both wrote the key, with a match, while the cache holds another key too
CacheValuesKeptWitness ==
    \E p, r \in Procs :
        /\ p # r
        /\ Finished(p, "search") /\ procs[p].path = "token"
        /\ Finished(r, "search") /\ procs[r].path = "token"
        /\ procs[p].q = procs[r].q
        /\ procs[p].q \in DOMAIN cache
        /\ cache[procs[p].q] # << >>
        /\ Cardinality(DOMAIN cache) = 2

\* the IDs that one search for `query`, run alone over the loaded collection
\* and its index, writes to the cache
StoredAlone(query) ==
    IF QueryTokens(query) = {} THEN {} ELSE ContainingAll(query)

\* C24 - concurrent misses agree: searches for the same query that has no
\* cache entry, run at the same time, all return the same set of posts, and
\* the cache is left with the IDs that a single search run alone would have
\* stored, whichever write came last.
ConcurrentMissesAgree ==
    \A p, r \in Procs :
        (/\ Finished(p, "search") /\ Finished(r, "search")
         /\ procs[p].q = procs[r].q /\ procs[p].q # << >>) =>
            /\ Range(procs[p].result) = Range(procs[r].result)
            /\ procs[p].path = "token" =>
                   /\ procs[p].q \in DOMAIN cache
                   /\ Range(cache[procs[p].q]) = StoredAlone(procs[p].query)
                   /\ NoDuplicates(cache[procs[p].q])
                   /\ Range(procs[p].result) = StoredAlone(procs[p].query)

\* two searches for the same two-word query both missed the cache, both
\* read the index for both words, and both returned the post that matches
ConcurrentMissesAgreeWitness ==
    \E p, r \in Procs :
        /\ p # r
        /\ Finished(p, "search") /\ Finished(r, "search")
        /\ procs[p].q = procs[r].q
        /\ procs[p].path = "token" /\ procs[r].path = "token"
        /\ procs[p].lookups = 2 /\ procs[r].lookups = 2
        /\ procs[p].result # << >>

\* goroutine p takes a step that reads b.posts: the tag scan or the mapping
\* of cached IDs to posts, the mapping of the matching IDs to posts, or the
\* two loops of the suggestion handler
ReadsPosts(p) ==
    \/ procs[p].pc = "cacheRead" /\ procs'[p].pc \in {"done", "indexRLock"}
    \/ procs[p].pc = "cacheStore" /\ procs'[p].pc = "done"
    \/ procs[p].pc = "idle" /\ procs'[p].op = "suggest"

\* goroutine r is inside the writes of LoadPosts: it has put a post in the
\* map and the list, and has not sorted the list yet
MidLoad(r) ==
    /\ procs[r].op = "load"
    /\ procs[r].pc \in {"loadFile", "loadSort"}
    /\ procs[r].todo # DOMAIN blogFS

\* C25 - collection reads: the reads of b.posts made by search and by the
\* suggestion handler never fall between the writes that a LoadPosts call
\* makes to b.posts and b.postList, in any interleaving of requests with a
\* LoadPosts call.
CollectionReadsApart ==
    [][\A p, r \in Procs : ReadsPosts(p) => ~MidLoad(r)]_vars

\* goroutine p holds mutex mu, on the read side or on the write side
Holds(mu, p) == p \in mu.readers \/ mu.w = p

\* the number of entries of the lock log of p that are `name`
Calls(p, name) == Cardinality({i \in DOMAIN procs[p].locks : procs[p].locks[i] = name})

\* C26 - lock hygiene of search: on every path (empty query, cache hit, tag
\* match, token match) a search that has returned holds no lock and has
\* released every lock as often as it acquired it, and at no point does a
\* search hold the cache lock and the index lock together.
LockHygiene ==
    \A p \in Procs :
        /\ procs[p].op = "search" => ~(Holds(cacheMu, p) /\ Holds(indexMu, p))
        /\ Finished(p, "search") =>
               /\ ~Holds(cacheMu, p) /\ ~Holds(indexMu, p)
               /\ p \notin cacheMu.waitq \cup cacheMu.wq \cup indexMu.waitq \cup indexMu.wq
               /\ Calls(p, "cache.RLock") = Calls(p, "cache.RUnlock")
               /\ Calls(p, "cache.Lock") = Calls(p, "cache.Unlock")
               /\ Calls(p, "index.RLock") = Calls(p, "index.RUnlock")
        /\ procs[p].pc = "idle" => ~Holds(cacheMu, p) /\ ~Holds(indexMu, p)

\* one search has returned on a cache hit and another through the token
\* loop, each after it took and released its locks
LockHygieneWitness ==
    \E p, r \in Procs :
        /\ Finished(p, "search") /\ procs[p].path = "cache"
        /\ procs[p].locks = LocksHit
        /\ Finished(r, "search") /\ procs[r].path = "token"
        /\ procs[r].locks = LocksMiss

\* what the snapshot shows for word w.  Its list is the storage of the
\* lists of map number snapshot.gen, read up to the length it had at the
\* export; that storage is written only by the build that fills that map.
snapshotView(w) ==
    LET v == snapshot.invertedIndex[w] IN
    IF snapshot.gen # gen THEN v
    ELSE [i \in 1..Len(v) |->
             IF i <= Len(Lookup(index, w)) THEN index[w][i] ELSE v[i]]

\* no posting list of the snapshot has changed since the export
SnapshotStable ==
    snapshot.taken =>
        \A w \in DOMAIN snapshot.invertedIndex : snapshotView(w) = snapshot.invertedIndex[w]

\* the snapshot is a whole index of the collection: every word of every
\* post lists the post
SnapshotWhole ==
    snapshot.taken =>
        \A id \in DOMAIN posts : \A w \in Range(tokenize(indexedText(posts[id]))) :
            contains(Lookup(snapshot.invertedIndex, ToLower(w)), id)

\* no posting list of the snapshot is stored where a list of the live
\* index is stored
SnapshotDeepCopy ==
    snapshot.taken =>
        (snapshot.gen # gen \/ DOMAIN snapshot.invertedIndex \cap DOMAIN index = {})

\* C12 - export snapshot isolation: the token-to-ID mapping that the export
\* hands out is a deep copy, no later rebuild changes a posting list of the
\* snapshot, and the snapshot never shows a partially built index.
ExportSnapshotIsolation ==
    /\ SnapshotDeepCopy
    /\ SnapshotStable
    /\ SnapshotWhole

====
